---- MODULE Spec2Model ----
(***************************************************************************)
(* AffiHub tracking subsystem: affiliate links, click tracking and         *)
(* conversion recording (src/tracking), with the product catalogue         *)
(* (src/products) and the user roles (src/users) they depend on.           *)
(*                                                                         *)
(* Money is counted in cents; a commission_amount is kept in hundredths of *)
(* a cent (cents * percent) so that amount * rate / 100 is exact.          *)
(***************************************************************************)
EXTENDS Integers, FiniteSets, Sequences, TLC

\* ------------------------------------------------------------------ bounds
MaxLinks  == 2      \* affiliate links ever created (primary keys 1..MaxLinks)
MaxClicks == 2      \* clicks ever recorded
MaxConvs  == 1      \* conversions ever recorded
MaxTime   == 2      \* clock ticks

\* ------------------------------------------------------------------ users
Affiliates == {"a1", "a2"}
Merchants  == {"m1", "m2"}
Admins     == {"adm"}
Users      == Affiliates \cup Merchants \cup Admins

role(u) == IF u \in Affiliates THEN "affiliate"
           ELSE IF u \in Merchants THEN "merchant"
           ELSE ""

\* (variant: a role test every user passes)
is_affiliate_any(u) == TRUE

is_affiliate(u) == role(u) = "affiliate"
is_merchant(u)  == role(u) = "merchant"
is_superuser(u) == u \in Admins

\* --------------------------------------------------------------- catalogue
ProductIds == {"p1", "p2"}
Rates      == {10, 25}          \* commission_rate, percent
Prices     == {5000, 8000}      \* price, cents
Urls       == {"", "http://ext"}

OwnerOf(p) == IF p = "p1" THEN "m1" ELSE "m2"

NoTime  == 0                    \* expires_at = None
NoClick == 0                    \* Conversion.click = None
Times   == 1..MaxTime

LinkIds == 1..MaxLinks
GenCode(id) == <<"uuid", id>>   \* AffiliateLink.code default: a fresh uuid4
Codes   == {GenCode(i) : i \in 0..MaxLinks}     \* GenCode(0) is never issued

Landing == {"", "http://landing"}

VARIABLES
    products,       \* ProductIds -> Product row
    links,          \* set of AffiliateLink rows
    clicks,         \* set of Click rows
    conversions,    \* set of Conversion rows
    nextLink,       \* next AffiliateLink primary key
    nextClick,      \* next Click primary key
    nextConv,       \* next Conversion primary key
    now,            \* timezone.now()
    workers,        \* request in progress in each worker, or idle
    resp,           \* the response the last step sent, NoResp if it sent none
    cache           \* django.core.cache: the backend and its product entries

vars == <<products, links, clicks, conversions, nextLink, nextClick,
          nextConv, now, workers, resp, cache>>

Workers == {"w1", "w2"}
Idle    == [stage |-> "idle"]

NoResp  == [op |-> "none", user |-> "", status |-> 0]

\* A cache entry products_queryset_{user.id}_{hash of no query parameters}:
\* absent, or the rows of the queryset as they were when it was stored
NoEntry == [set |-> FALSE, rows |-> {}]

\* The cache backend is a setting of the deployment: "dummy" stores nothing,
\* "locmem" stands for Django's built-in backends, whose interface has no
\* keys(), and "redis" for a backend that adds keys() with wildcards.
CacheOff == [backend |-> "dummy", entries |-> [u \in Users |-> NoEntry]]

LinkById(id)     == CHOOSE l \in links : l.id = id
HasLinkId(id)    == \E l \in links : l.id = id

\* ------------------------------------------------ storage-level constraints
\* unique (affiliate, product) on AffiliateLink: a write of row `l` is accepted
\* only if no other row has its pair.
\* (variant: a table without the constraint accepts every row)
UniquePairUnconstrained(l, rows) == TRUE

UniquePairOK(l, rows) ==
    ~\E o \in rows : o.id # l.id /\ o.affiliate = l.affiliate /\ o.product = l.product

\* (variant: the rows of a deleted link are kept and detached from it)
CascadeClicksDetach(rows, id) ==
    {IF c.affiliate_link = id THEN [c EXCEPT !.affiliate_link = 0] ELSE c :
     c \in rows}

\* on_delete=CASCADE from AffiliateLink to Click and Conversion.
CascadeClicks(rows, id) == {c \in rows : c.affiliate_link # id}
CascadeConversions(rows, id) == {c \in rows : c.affiliate_link # id}


\* -------------------------------------------------------------------- Init
Init ==
    /\ products \in [ProductIds -> [merchant : Merchants, price : {5000},
                                    commission_rate : {10}, is_active : {TRUE},
                                    external_url : Urls]]
    /\ \A p \in ProductIds : products[p].merchant = OwnerOf(p)
    /\ links = {}
    /\ clicks = {}
    /\ conversions = {}
    /\ nextLink = 1
    /\ nextClick = 1
    /\ nextConv = 1
    /\ now = 0
    /\ workers = [w \in Workers |-> Idle]
    /\ resp = NoResp
    /\ cache = CacheOff

\* ------------------------------------------------------------ link registry
\* AffiliateLinkViewSet.get_queryset without query parameters.
LinkQueryset(u) ==
    IF is_affiliate(u) THEN {l \in links : l.affiliate = u} ELSE links

\* (variant: no validate_product)
ValidateProductAny(p) == TRUE

\* AffiliateLinkCreateSerializer.validate_product
ValidateProduct(p) == products[p].is_active

\* AffiliateLinkCreateSerializer.validate: no link of this user for the product
ValidateNoDuplicate(u, p) ==
    ~\E l \in links : l.affiliate = u /\ l.product = p

\* create requests that passed validation and have not inserted yet
PendingCreates == Cardinality({w \in Workers : workers[w].stage = "create_validated"})

\* POST /links/, first half: serializer.is_valid(raise_exception=True)
BeginCreateLink(w, u, p, landing, exp) ==
    /\ workers[w] = Idle
    /\ nextLink + PendingCreates <= MaxLinks
    /\ IF ~ValidateProduct(p)
         THEN /\ resp' = [op |-> "create_link", user |-> u, status |-> 400,
                          product |-> p, detail |-> "inactive_product"]
              /\ UNCHANGED workers
       ELSE IF ~ValidateNoDuplicate(u, p)
         THEN /\ resp' = [op |-> "create_link", user |-> u, status |-> 400,
                          product |-> p, detail |-> "duplicate"]
              /\ UNCHANGED workers
       ELSE /\ workers' = [workers EXCEPT ![w] =
                             [stage |-> "create_validated", user |-> u,
                              product |-> p, landing_url |-> landing,
                              expires_at |-> exp]]
            /\ resp' = NoResp
    /\ UNCHANGED <<products, links, clicks, conversions, nextLink, nextClick,
                   nextConv, now, cache>>

\* the row serializer.save(affiliate=request.user) inserts
NewLink(r) ==
    [id |-> nextLink, code |-> GenCode(nextLink), affiliate |-> r.user,
     product |-> r.product, landing_url |-> r.landing_url,
     expires_at |-> r.expires_at, is_active |-> TRUE]

\* POST /links/, second half: AffiliateLinkViewSet.perform_create
FinishCreateLink(w) ==
    /\ workers[w].stage = "create_validated"
    /\ LET r == workers[w] IN
       IF ~is_affiliate(r.user)
         THEN /\ resp' = [op |-> "create_link", user |-> r.user, status |-> 403,
                          product |-> r.product, detail |-> "not_affiliate"]
              /\ UNCHANGED <<links, nextLink>>
       ELSE IF ~UniquePairOK(NewLink(r), links)
         THEN \* IntegrityError from the insert, not handled by the view
              /\ resp' = [op |-> "create_link", user |-> r.user, status |-> 500,
                          product |-> r.product, detail |-> "integrity_error"]
              /\ UNCHANGED <<links, nextLink>>
       ELSE /\ links' = links \cup {NewLink(r)}
            /\ nextLink' = nextLink + 1
            /\ resp' = [op |-> "create_link", user |-> r.user, status |-> 201,
                        product |-> r.product, detail |-> ""]
    /\ workers' = [workers EXCEPT ![w] = Idle]
    /\ UNCHANGED <<products, clicks, conversions, nextClick, nextConv, now,
                   cache>>


\* the body of a POST /links/ request: the fields the create serializer
\* declares, and fields of the model a client may send along with them
LinkBodies ==
    [product : ProductIds, landing_url : Landing, expires_at : {NoTime} \cup Times,
     affiliate : Users, code : Codes, is_active : BOOLEAN]

\* AffiliateLinkCreateSerializer.Meta.fields: what of the body reaches
\* validated_data (custom_slug is not modelled)
CreateData(body) ==
    [product |-> body.product, landing_url |-> body.landing_url,
     expires_at |-> body.expires_at]

\* POST /links/ with a request body, first half
PostLink(w, u, body) ==
    LET v == CreateData(body) IN
    BeginCreateLink(w, u, v.product, v.landing_url, v.expires_at)


\* (variant: code left out of read_only_fields)
LinkWritableCode ==
    [affiliate   |-> Users,
     product     |-> ProductIds,
     landing_url |-> Landing,
     is_active   |-> BOOLEAN,
     expires_at  |-> {NoTime} \cup Times,
     code        |-> Codes]

\* the writable fields of AffiliateLinkSerializer (Meta.fields minus
\* read_only_fields, minus the read-only declared fields), each with the
\* values a PUT/PATCH may carry for it
LinkWritable ==
    [affiliate   |-> Users,
     product     |-> ProductIds,
     landing_url |-> Landing,
     is_active   |-> BOOLEAN,
     expires_at  |-> {NoTime} \cup Times]

LinkPatches ==
    UNION {{[field |-> f, value |-> v] : v \in LinkWritable[f]} :
           f \in DOMAIN LinkWritable}

ApplyLinkPatch(l, d) ==
    CASE d.field = "affiliate"   -> [l EXCEPT !.affiliate = d.value]
      [] d.field = "product"     -> [l EXCEPT !.product = d.value]
      [] d.field = "landing_url" -> [l EXCEPT !.landing_url = d.value]
      [] d.field = "is_active"   -> [l EXCEPT !.is_active = d.value]
      [] d.field = "expires_at"  -> [l EXCEPT !.expires_at = d.value]
      [] d.field = "code"        -> [l EXCEPT !.code = d.value]

\* (variant: no owner test)
MayChangeLinkAnyone(u, l) == TRUE

\* AffiliateLinkViewSet.perform_update / perform_destroy owner test
MayChangeLink(u, l) == l.affiliate = u \/ is_superuser(u)

\* PUT/PATCH /links/{id}/ : get_object, perform_update, save
UpdateLink(u, id, d) ==
    /\ IF ~\E l \in LinkQueryset(u) : l.id = id
         THEN /\ resp' = [op |-> "update_link", user |-> u, status |-> 404,
                          link |-> id]
              /\ UNCHANGED links
       ELSE LET l == LinkById(id)
                n == ApplyLinkPatch(l, d) IN
            IF ~MayChangeLink(u, l)
              THEN /\ resp' = [op |-> "update_link", user |-> u, status |-> 403,
                               link |-> id]
                   /\ UNCHANGED links
            ELSE IF ~UniquePairOK(n, links)
              THEN \* rejected by the unique constraint: as a validation error
                   \* or as an IntegrityError, depending on how it is declared
                   /\ \E st \in {400, 500} :
                        resp' = [op |-> "update_link", user |-> u, status |-> st,
                                 link |-> id]
                   /\ UNCHANGED links
            ELSE /\ links' = (links \ {l}) \cup {n}
                 /\ resp' = [op |-> "update_link", user |-> u, status |-> 200,
                             link |-> id]
    /\ UNCHANGED <<products, clicks, conversions, nextLink, nextClick,
                   nextConv, now, workers, cache>>

\* DELETE /links/{id}/ : get_object, perform_destroy
DestroyLink(u, id) ==
    /\ IF ~\E l \in LinkQueryset(u) : l.id = id
         THEN /\ resp' = [op |-> "destroy_link", user |-> u, status |-> 404,
                          link |-> id]
              /\ UNCHANGED <<links, clicks, conversions>>
       ELSE LET l == LinkById(id) IN
            IF ~MayChangeLink(u, l)
              THEN /\ resp' = [op |-> "destroy_link", user |-> u, status |-> 403,
                               link |-> id]
                   /\ UNCHANGED <<links, clicks, conversions>>
            ELSE /\ links' = links \ {l}
                 /\ clicks' = CascadeClicks(clicks, id)
                 /\ conversions' = CascadeConversions(conversions, id)
                 /\ resp' = [op |-> "destroy_link", user |-> u, status |-> 204,
                             link |-> id]
    /\ UNCHANGED <<products, nextLink, nextClick, nextConv, now, workers,
                   cache>>

\* AffiliateLinkAdmin.activate_links / deactivate_links on the selected rows
AdminSetActive(ids, flag) ==
    /\ ids # {}
    /\ ids \subseteq {l.id : l \in links}
    /\ links' = {IF l.id \in ids THEN [l EXCEPT !.is_active = flag] ELSE l :
                 l \in links}
    /\ resp' = [op |-> IF flag THEN "admin_activate" ELSE "admin_deactivate",
                user |-> "adm", status |-> 200, ids |-> ids]
    /\ UNCHANGED <<products, clicks, conversions, nextLink, nextClick,
                   nextConv, now, workers, cache>>

AdminActivateLinks(ids)   == AdminSetActive(ids, TRUE)
AdminDeactivateLinks(ids) == AdminSetActive(ids, FALSE)

\* the clock
Tick ==
    /\ now < MaxTime
    /\ now' = now + 1
    /\ resp' = NoResp
    /\ UNCHANGED <<products, links, clicks, conversions, nextLink, nextClick,
                   nextConv, workers, cache>>


\* --------------------------------------------------------------- click flow
\* (variant: the lookup without the is_active filter)
LinkLookupAnyState(code) == {l \in links : l.code = code}

\* AffiliateLink.objects.filter(code=code, is_active=True)
LinkLookup(code) == {l \in links : l.code = code /\ l.is_active}

\* get_object_or_404(AffiliateLink, code=code, is_active=True): whether a row
\* is found, and the exception raised when none is
Resolve(code) ==
    IF LinkLookup(code) # {}
      THEN [found |-> TRUE, raised |-> ""]
      ELSE [found |-> FALSE, raised |-> "Http404"]

ResolvedLink(code) == CHOOSE l \in LinkLookup(code) : TRUE

\* the except clauses of track_click and record_conversion:
\*   except AffiliateLink.DoesNotExist -> 404 ; except Exception -> 500
\* Http404 is not a subclass of AffiliateLink.DoesNotExist.
HandlerStatus(exc) == IF exc = "DoesNotExist" THEN 404 ELSE 500

\* (variant: no expiry test)
ExpiredNever(l) == FALSE

\* link.expires_at and timezone.now() > link.expires_at
Expired(l) == l.expires_at # NoTime /\ now > l.expires_at

ProductDetailUrl(p) == IF p = "p1" THEN "/api/products/p1/" ELSE "/api/products/p2/"

\* (variant: the product's external URL tested before the landing URL)
RedirectUrlExternalFirst(l) ==
    IF products[l.product].external_url # ""
      THEN products[l.product].external_url
    ELSE IF l.landing_url # "" THEN l.landing_url
    ELSE ProductDetailUrl(l.product)

\* redirect precedence at the end of track_click
RedirectUrl(l) ==
    IF l.landing_url # "" THEN l.landing_url
    ELSE IF products[l.product].external_url # ""
      THEN products[l.product].external_url
    ELSE ProductDetailUrl(l.product)

PendingClicks == Cardinality({w \in Workers : workers[w].stage = "click_resolved"})

\* GET /click/{code}/, first half: resolve the code and test the expiry
BeginClick(w, code) ==
    /\ workers[w] = Idle
    /\ nextClick + PendingClicks <= MaxClicks
    /\ LET r == Resolve(code) IN
       IF ~r.found
         THEN /\ resp' = [op |-> "click", user |-> "anon",
                          status |-> HandlerStatus(r.raised), code |-> code,
                          target |-> ""]
              /\ UNCHANGED workers
       ELSE IF Expired(ResolvedLink(code))
         THEN /\ resp' = [op |-> "click", user |-> "anon", status |-> 410,
                          code |-> code, target |-> ""]
              /\ UNCHANGED workers
       ELSE /\ workers' = [workers EXCEPT ![w] =
                             [stage |-> "click_resolved",
                              link |-> ResolvedLink(code)]]
            /\ resp' = NoResp
    /\ UNCHANGED <<products, links, clicks, conversions, nextLink, nextClick,
                   nextConv, now, cache>>

\* (variant: a Click row without a primary key of its own)
NewClickNoKey(l) ==
    [id |-> 1, affiliate_link |-> l.id, timestamp |-> now]

\* the row Click.objects.create inserts
NewClick(l) ==
    [id |-> nextClick, affiliate_link |-> l.id, timestamp |-> now]

\* GET /click/{code}/, second half: Click.objects.create, then the redirect.
\* `stored` is whether the storage layer accepts the insert.
FinishClick(w, stored) ==
    /\ workers[w].stage = "click_resolved"
    /\ LET l == workers[w].link IN
       IF ~stored \/ ~HasLinkId(l.id)
         THEN \* DatabaseError / IntegrityError, caught by `except Exception`
              /\ resp' = [op |-> "click", user |-> "anon",
                          status |-> HandlerStatus("DatabaseError"),
                          code |-> l.code, target |-> ""]
              /\ UNCHANGED <<clicks, nextClick>>
       ELSE /\ clicks' = clicks \cup {NewClick(l)}
            /\ nextClick' = nextClick + 1
            /\ resp' = [op |-> "click", user |-> "anon", status |-> 302,
                        code |-> l.code, target |-> RedirectUrl(l)]
    /\ workers' = [workers EXCEPT ![w] = Idle]
    /\ UNCHANGED <<products, links, conversions, nextLink, nextConv, now,
                   cache>>


\* ---------------------------------------------------------- conversion flow
\* the amount of a conversion request: absent, a number (in cents) or text
\* that is no number
AmountInputs ==
    {[kind |-> "missing", cents |-> 0], [kind |-> "text", cents |-> 0]} \cup
    {[kind |-> "number", cents |-> c] : c \in {-100, 0, 2000, 5000}}

\* Conversion.save() on insert: the commission snapshot, in cents * percent
Commission(amount, l) == amount * products[l.product].commission_rate

\* (variant: the row is inserted without a commission snapshot)
NewConversionNoSnapshot(l, click, amount) ==
    [id |-> nextConv, affiliate_link |-> l.id, click |-> click,
     amount |-> amount, commission_amount |-> 0,
     verified |-> FALSE, timestamp |-> now]

\* the row Conversion.objects.create / ModelSerializer.create inserts
NewConversion(l, click, amount) ==
    [id |-> nextConv, affiliate_link |-> l.id, click |-> click,
     amount |-> amount, commission_amount |-> Commission(amount, l),
     verified |-> FALSE, timestamp |-> now]

\* record_conversion: request.user != link.product.merchant and not superuser
MayRecordConversion(u, l) ==
    u = products[l.product].merchant \/ is_superuser(u)

\* record_conversion: `not amount or float(amount) <= 0`, where float() of
\* text raises ValueError
AmountCheck(a) ==
    IF a.kind = "missing" THEN "invalid"
    ELSE IF a.kind = "text" THEN "ValueError"
    ELSE IF a.cents <= 0 THEN "invalid"
    ELSE "ok"

\* POST /convert/{code}/
RecordConversion(u, code, a) ==
    /\ nextConv <= MaxConvs
    /\ LET r == Resolve(code) IN
       IF ~r.found
         THEN /\ resp' = [op |-> "convert", user |-> u,
                          status |-> HandlerStatus(r.raised), code |-> code]
              /\ UNCHANGED <<conversions, nextConv>>
       ELSE LET l == ResolvedLink(code) IN
            IF ~MayRecordConversion(u, l)
              THEN /\ resp' = [op |-> "convert", user |-> u, status |-> 403,
                               code |-> code]
                   /\ UNCHANGED <<conversions, nextConv>>
            ELSE IF AmountCheck(a) = "invalid"
              THEN /\ resp' = [op |-> "convert", user |-> u, status |-> 400,
                               code |-> code]
                   /\ UNCHANGED <<conversions, nextConv>>
            ELSE IF AmountCheck(a) # "ok"
              THEN /\ resp' = [op |-> "convert", user |-> u,
                               status |-> HandlerStatus(AmountCheck(a)),
                               code |-> code]
                   /\ UNCHANGED <<conversions, nextConv>>
            ELSE /\ conversions' = conversions \cup
                        {NewConversion(l, NoClick, a.cents)}
                 /\ nextConv' = nextConv + 1
                 /\ resp' = [op |-> "convert", user |-> u, status |-> 201,
                             code |-> code]
    /\ UNCHANGED <<products, links, clicks, nextLink, nextClick, now, workers,
                   cache>>

\* ConversionCreateSerializer: field validation, validate_amount,
\* validate_affiliate_link
ConversionCreateValid(lid, click, a) ==
    /\ HasLinkId(lid)
    /\ click = NoClick \/ \E c \in clicks : c.id = click
    /\ a.kind = "number"
    /\ a.cents > 0
    /\ LinkById(lid).is_active

\* ConversionViewSet.perform_create: the only callers refused are merchants
\* who do not own the product
PerformCreateAllows(u, l) ==
    ~(is_merchant(u) /\ products[l.product].merchant # u)

\* POST /conversions/
CreateConversion(u, lid, click, a) ==
    /\ nextConv <= MaxConvs
    /\ IF ~ConversionCreateValid(lid, click, a)
         THEN /\ resp' = [op |-> "create_conversion", user |-> u,
                          status |-> 400, link |-> lid]
              /\ UNCHANGED <<conversions, nextConv>>
       ELSE LET l == LinkById(lid) IN
            IF ~PerformCreateAllows(u, l)
              THEN /\ resp' = [op |-> "create_conversion", user |-> u,
                               status |-> 403, link |-> lid]
                   /\ UNCHANGED <<conversions, nextConv>>
            ELSE /\ conversions' = conversions \cup
                        {NewConversion(l, click, a.cents)}
                 /\ nextConv' = nextConv + 1
                 /\ resp' = [op |-> "create_conversion", user |-> u,
                             status |-> 201, link |-> lid]
    /\ UNCHANGED <<products, links, clicks, nextLink, nextClick, now, workers,
                   cache>>

\* ConversionViewSet.get_queryset without query parameters
ConversionQueryset(u) ==
    IF is_affiliate(u)
      THEN {c \in conversions : LinkById(c.affiliate_link).affiliate = u}
    ELSE IF is_merchant(u)
      THEN {c \in conversions :
              products[LinkById(c.affiliate_link).product].merchant = u}
    ELSE conversions

\* (variant: commission_amount left out of read_only_fields)
ConversionWritableCommission ==
    [affiliate_link    |-> {l.id : l \in links},
     click             |-> {NoClick} \cup {c.id : c \in clicks},
     amount            |-> {-100, 2000, 5000},
     verified          |-> BOOLEAN,
     commission_amount |-> {0}]

\* the writable fields of ConversionSerializer (Meta.fields minus
\* read_only_fields, minus the read-only declared fields) and the values a
\* valid PUT/PATCH may carry for them
ConversionWritable ==
    [affiliate_link |-> {l.id : l \in links},
     click          |-> {NoClick} \cup {c.id : c \in clicks},
     amount         |-> {-100, 2000, 5000},
     verified       |-> BOOLEAN]

ConversionPatches ==
    UNION {{[field |-> f, value |-> v] : v \in ConversionWritable[f]} :
           f \in DOMAIN ConversionWritable}

ApplyConversionPatch(c, d) ==
    CASE d.field = "affiliate_link"    -> [c EXCEPT !.affiliate_link = d.value]
      [] d.field = "click"             -> [c EXCEPT !.click = d.value]
      [] d.field = "amount"            -> [c EXCEPT !.amount = d.value]
      [] d.field = "verified"          -> [c EXCEPT !.verified = d.value]
      [] d.field = "commission_amount" -> [c EXCEPT !.commission_amount = d.value]

\* Conversion.save() on an update: the commission snapshot taken at creation
\* is kept, it is not taken again
SaveExisting(c) == c

\* PUT/PATCH /conversions/{id}/ : ModelViewSet.update, no perform_update
UpdateConversion(u, id, d) ==
    /\ d \in ConversionPatches
    /\ IF ~\E c \in ConversionQueryset(u) : c.id = id
         THEN /\ resp' = [op |-> "update_conversion", user |-> u,
                          status |-> 404, conversion |-> id]
              /\ UNCHANGED conversions
       ELSE LET c == CHOOSE x \in conversions : x.id = id IN
            /\ conversions' = (conversions \ {c}) \cup
                                 {SaveExisting(ApplyConversionPatch(c, d))}
            /\ resp' = [op |-> "update_conversion", user |-> u,
                        status |-> 200, conversion |-> id]
    /\ UNCHANGED <<products, links, clicks, nextLink, nextClick, nextConv,
                   now, workers, cache>>

\* DELETE /conversions/{id}/ : ModelViewSet.destroy, no perform_destroy
DestroyConversion(u, id) ==
    /\ IF ~\E c \in ConversionQueryset(u) : c.id = id
         THEN /\ resp' = [op |-> "destroy_conversion", user |-> u,
                          status |-> 404, conversion |-> id]
              /\ UNCHANGED conversions
       ELSE /\ conversions' = {c \in conversions : c.id # id}
            /\ resp' = [op |-> "destroy_conversion", user |-> u,
                        status |-> 204, conversion |-> id]
    /\ UNCHANGED <<products, links, clicks, nextLink, nextClick, nextConv,
                   now, workers, cache>>

\* ConversionAdmin.verify_conversions / unverify_conversions
AdminSetVerified(ids, flag) ==
    /\ ids # {}
    /\ ids \subseteq {c.id : c \in conversions}
    /\ conversions' = {IF c.id \in ids THEN [c EXCEPT !.verified = flag] ELSE c :
                       c \in conversions}
    /\ resp' = [op |-> IF flag THEN "admin_verify" ELSE "admin_unverify",
                user |-> "adm", status |-> 200, ids |-> ids]
    /\ UNCHANGED <<products, links, clicks, nextLink, nextClick, nextConv,
                   now, workers, cache>>

AdminVerifyConversions(ids)   == AdminSetVerified(ids, TRUE)
AdminUnverifyConversions(ids) == AdminSetVerified(ids, FALSE)

\* ----------------------------------------------------------------- catalogue
\* ProductViewSet.get_queryset without query parameters
ProductQueryset(u) ==
    IF is_merchant(u) THEN {p \in DOMAIN products : products[p].merchant = u}
    ELSE DOMAIN products

\* what a stored queryset holds once cache.set has pickled it: its rows
Snapshot(u) == {[id |-> p, row |-> products[p]] : p \in ProductQueryset(u)}

\* ProductViewSet.get_queryset: cache.get, and cache.set after a miss
CacheAfterGet(u) ==
    IF cache.backend # "dummy" /\ ~cache.entries[u].set
      THEN [cache EXCEPT !.entries[u] = [set |-> TRUE, rows |-> Snapshot(u)]]
      ELSE cache

\* the rows a list over get_queryset iterates: those of the cached queryset
\* after a hit, those of the table after a miss
ListedRows(u) ==
    IF cache.entries[u].set THEN cache.entries[u].rows ELSE Snapshot(u)

\* GET /products/ : ProductViewSet.list
ListProducts(u) ==
    /\ resp' = [op |-> "list_products", user |-> u, status |-> 200,
                rows |-> ListedRows(u)]
    /\ cache' = CacheAfterGet(u)
    /\ UNCHANGED <<products, links, clicks, conversions, nextLink, nextClick,
                   nextConv, now, workers>>

\* an entry reaches its timeout of 300 seconds
ExpireEntry(u) ==
    /\ cache.entries[u].set
    /\ cache' = [cache EXCEPT !.entries[u] = NoEntry]
    /\ UNCHANGED <<products, links, clicks, conversions, nextLink, nextClick,
                   nextConv, now, workers, resp>>

\* _invalidate_product_cache with a backend that has keys(): every
\* products_queryset_* entry is deleted
InvalidatedCache == [cache EXCEPT !.entries = [u \in Users |-> NoEntry]]

\* DELETE /products/{id}/ : get_object, perform_destroy. Deleting the row
\* deletes the links to the product with their clicks and conversions.
DestroyProduct(u, p) ==
    /\ IF p \notin ProductQueryset(u)
         THEN /\ resp' = [op |-> "destroy_product", user |-> u, status |-> 404,
                          product |-> p]
              /\ cache' = CacheAfterGet(u)
              /\ UNCHANGED <<products, links, clicks, conversions>>
       ELSE IF products[p].merchant # u /\ ~is_superuser(u)
         THEN /\ resp' = [op |-> "destroy_product", user |-> u, status |-> 403,
                          product |-> p]
              /\ cache' = CacheAfterGet(u)
              /\ UNCHANGED <<products, links, clicks, conversions>>
       ELSE IF cache.backend # "redis"
         THEN \* cache.keys raises AttributeError before instance.delete()
              /\ resp' = [op |-> "destroy_product", user |-> u, status |-> 500,
                          product |-> p]
              /\ cache' = CacheAfterGet(u)
              /\ UNCHANGED <<products, links, clicks, conversions>>
       ELSE LET gone == {l \in links : l.product = p} IN
            /\ products' = [q \in DOMAIN products \ {p} |-> products[q]]
            /\ links' = links \ gone
            /\ clicks' = {k \in clicks :
                            \A l \in gone : k.affiliate_link # l.id}
            /\ conversions' = {c \in conversions :
                                 \A l \in gone : c.affiliate_link # l.id}
            /\ cache' = InvalidatedCache
            /\ resp' = [op |-> "destroy_product", user |-> u, status |-> 204,
                        product |-> p]
    /\ UNCHANGED <<nextLink, nextClick, nextConv, now, workers>>

\* the fields of ProductUpdateSerializer the tracking flows read, with the
\* values a request may carry
ProductInputs ==
    [price           |-> Prices \cup {0},
     commission_rate |-> Rates \cup {150},
     external_url    |-> Urls,
     is_active       |-> BOOLEAN]

ProductPatches ==
    UNION {{[field |-> f, value |-> v] : v \in ProductInputs[f]} :
           f \in DOMAIN ProductInputs}

\* ProductUpdateSerializer.validate_commission_rate / validate_price
ProductPatchValid(d) ==
    /\ d.field = "commission_rate" => ~(d.value < 0 \/ d.value > 100)
    /\ d.field = "price" => ~(d.value <= 0)

ApplyProductPatch(r, d) ==
    CASE d.field = "price"           -> [r EXCEPT !.price = d.value]
      [] d.field = "commission_rate" -> [r EXCEPT !.commission_rate = d.value]
      [] d.field = "external_url"    -> [r EXCEPT !.external_url = d.value]
      [] d.field = "is_active"       -> [r EXCEPT !.is_active = d.value]

\* PUT/PATCH /products/{id}/ : get_object, is_valid, perform_update
UpdateProduct(u, p, d) ==
    /\ IF p \notin ProductQueryset(u)
         THEN /\ resp' = [op |-> "update_product", user |-> u, status |-> 404,
                          product |-> p]
              /\ UNCHANGED products
       ELSE IF ~ProductPatchValid(d)
         THEN /\ resp' = [op |-> "update_product", user |-> u, status |-> 400,
                          product |-> p]
              /\ UNCHANGED products
       ELSE IF products[p].merchant # u /\ ~is_superuser(u)
         THEN /\ resp' = [op |-> "update_product", user |-> u, status |-> 403,
                          product |-> p]
              /\ UNCHANGED products
       ELSE /\ products' = [products EXCEPT ![p] = ApplyProductPatch(@, d)]
            /\ resp' = [op |-> "update_product", user |-> u, status |-> 200,
                        product |-> p]
    /\ cache' = CacheAfterGet(u)
    /\ UNCHANGED <<links, clicks, conversions, nextLink, nextClick, nextConv,
                   now, workers>>


\* the body of a POST /convert/{code}/ request: the amount, and the click the
\* conversion comes from, if the merchant knows it
ConvertBodies ==
    [amount : AmountInputs, click : {NoClick} \cup (1..MaxClicks)]

\* what record_conversion reads of the body: request.data.get('amount')
\* (order_id and notes are not modelled)
ConvertData(body) == [amount |-> body.amount]

\* POST /convert/{code}/ with a request body
PostConvert(u, code, body) ==
    RecordConversion(u, code, ConvertData(body).amount)


\* ------------------------------------------------------ device classification
\* A user-agent string is a sequence of characters.
MaxUaWords == 2     \* words a User-Agent header is put together from

\* str.lower() on the letters
Uppers == <<"A", "B", "C", "D", "E", "F", "G", "H", "I", "J", "K", "L", "M",
           "N", "O", "P", "Q", "R", "S", "T", "U", "V", "W", "X", "Y", "Z">>
Lowers == <<"a", "b", "c", "d", "e", "f", "g", "h", "i", "j", "k", "l", "m",
           "n", "o", "p", "q", "r", "s", "t", "u", "v", "w", "x", "y", "z">>
LowerChar(ch) ==
    IF \E i \in DOMAIN Uppers : Uppers[i] = ch
      THEN Lowers[CHOOSE i \in DOMAIN Uppers : Uppers[i] = ch]
      ELSE ch
Lower(s) == [i \in 1..Len(s) |-> LowerChar(s[i])]

\* `pattern in user_agent`: pattern occurs in s as a substring
Contains(pattern, s) ==
    \E i \in 0..(Len(s) - Len(pattern)) :
        SubSeq(s, i + 1, i + Len(pattern)) = pattern

\* mobile_patterns and tablet_patterns of detect_device_type
MobilePatterns ==
    {<<"m", "o", "b", "i", "l", "e">>,
     <<"a", "n", "d", "r", "o", "i", "d">>,
     <<"i", "p", "h", "o", "n", "e">>,
     <<"i", "p", "o", "d">>,
     <<"b", "l", "a", "c", "k", "b", "e", "r", "r", "y">>,
     <<"w", "i", "n", "d", "o", "w", "s", " ", "p", "h", "o", "n", "e">>,
     <<"p", "a", "l", "m">>,
     <<"s", "y", "m", "b", "i", "a", "n">>}
TabletPatterns ==
    {<<"i", "p", "a", "d">>,
     <<"t", "a", "b", "l", "e", "t">>,
     <<"k", "i", "n", "d", "l", "e">>}

\* (variant: the mobile patterns tested before the tablet patterns)
detect_device_type_mobile_first(user_agent) ==
    IF user_agent = <<>> THEN "unknown"
    ELSE LET ua == Lower(user_agent) IN
         IF \E p \in MobilePatterns : Contains(p, ua) THEN "mobile"
         ELSE IF \E p \in TabletPatterns : Contains(p, ua) THEN "tablet"
         ELSE "desktop"

\* detect_device_type(user_agent)
detect_device_type(user_agent) ==
    IF user_agent = <<>> THEN "unknown"
    ELSE LET ua == Lower(user_agent) IN
         IF \E p \in TabletPatterns : Contains(p, ua) THEN "tablet"
         ELSE IF \E p \in MobilePatterns : Contains(p, ua) THEN "mobile"
         ELSE "desktop"

\* the User-Agent header of a request: absent, or present with a text
NoHeader == [present |-> FALSE, text |-> <<>>]

\* request.META.get('HTTP_USER_AGENT', '')
HeaderValue(h) == IF h.present THEN h.text ELSE <<>>

\* the words user agents are put together from
UaWords ==
    {<<"i", "P", "a", "d">>,
     <<"I", "P", "A", "D">>,
     <<"A", "n", "d", "r", "o", "i", "d">>,
     <<"M", "o", "b", "i", "l", "e">>,
     <<"i", "P", "h", "o", "n", "e">>,
     <<"K", "i", "n", "d", "l", "e">>,
     <<"T", "a", "b", "l", "e", "t">>,
     <<"M", "o", "z", "i", "l", "l", "a">>,
     <<"W", "i", "n", "d", "o", "w", "s", " ">>,
     <<"P", "h", "o", "n", "e">>,
     <<"P", "a", "l", "m">>,
     <<"X", "1", "1">>}

RECURSIVE UaTexts(_)
UaTexts(n) ==
    IF n = 0 THEN {<<>>}
    ELSE UaTexts(n - 1) \cup {t \o w : t \in UaTexts(n - 1), w \in UaWords}

Headers == {NoHeader} \cup {[present |-> TRUE, text |-> t] : t \in UaTexts(MaxUaWords)}

\* track_click, the step that classifies the visitor's device
ClassifyDevice(w) ==
    /\ workers[w].stage = "click_received"
    /\ resp' = [op |-> "detect_device_type", user |-> "anon", status |-> 0,
                header |-> workers[w].header,
                device_type |-> detect_device_type(HeaderValue(workers[w].header))]
    /\ workers' = [workers EXCEPT ![w] = Idle]
    /\ UNCHANGED <<products, links, clicks, conversions, nextLink, nextClick,
                   nextConv, now, cache>>


\* ------------------------------------------------------------------- reads
\* ClickViewSet.get_queryset without query parameters
ClickQueryset(u) ==
    IF is_affiliate(u)
      THEN {k \in clicks : \E l \in links : l.id = k.affiliate_link
                                            /\ l.affiliate = u}
      ELSE clicks

\* GET /links/: AffiliateLinkViewSet.list
ListLinks(u) ==
    /\ resp' = [op |-> "list_links", user |-> u, status |-> 200,
                rows |-> {l.id : l \in LinkQueryset(u)}]
    /\ UNCHANGED <<products, links, clicks, conversions, nextLink, nextClick,
                   nextConv, now, workers, cache>>

\* GET /clicks/: ClickViewSet.list
ListClicks(u) ==
    /\ resp' = [op |-> "list_clicks", user |-> u, status |-> 200,
                rows |-> {k.id : k \in ClickQueryset(u)}]
    /\ UNCHANGED <<products, links, clicks, conversions, nextLink, nextClick,
                   nextConv, now, workers, cache>>

\* GET /conversions/: ConversionViewSet.list
ListConversions(u) ==
    /\ resp' = [op |-> "list_conversions", user |-> u, status |-> 200,
                rows |-> {c.id : c \in ConversionQueryset(u)}]
    /\ UNCHANGED <<products, links, clicks, conversions, nextLink, nextClick,
                   nextConv, now, workers, cache>>


\* ---------------------------------------------------------- link analytics
\* One unit of the clock is one day here, and every event of a day carries
\* the time of day of the request, so timestamp__date is the timestamp itself.
DateOf(t) == t

\* AffiliateLink.conversion_rate: the link's conversions over its clicks, 0
\* without clicks, as a ratio [num, den] (den = 0 stands for the rate 0).
\* The property takes no arguments, so no window reaches it.
conversion_rate(l) ==
    [num |-> Cardinality({c \in conversions : c.affiliate_link = l.id}),
     den |-> Cardinality({k \in clicks : k.affiliate_link = l.id})]

\* analytics: `for i in range(days): date = start_date + timedelta(days=i)`
DailyDates(start_date, days) ==
    [i \in 1..days |-> DateOf(start_date + (i - 1))]

\* GET /links/{id}/analytics/?days=<days>
Analytics(u, id, days) ==
    /\ IF ~\E l \in LinkQueryset(u) : l.id = id
         THEN resp' = [op |-> "analytics", user |-> u, status |-> 404,
                       link |-> id]
       ELSE LET link == LinkById(id) IN
            IF link.affiliate # u /\ ~is_superuser(u)
              THEN resp' = [op |-> "analytics", user |-> u, status |-> 403,
                            link |-> id]
            ELSE LET start_date == now - days
                     cs == {k \in clicks : /\ k.affiliate_link = id
                                           /\ k.timestamp >= start_date}
                     vs == {c \in conversions : /\ c.affiliate_link = id
                                                /\ c.timestamp >= start_date}
                     dates == DailyDates(start_date, days)
                 IN resp' =
                      [op |-> "analytics", user |-> u, status |-> 200,
                       link |-> id, days |-> days,
                       total_clicks |-> Cardinality(cs),
                       total_conversions |-> Cardinality(vs),
                       conversion_rate |-> conversion_rate(link),
                       daily_clicks |->
                          [i \in DOMAIN dates |->
                             [date |-> dates[i],
                              clicks |-> Cardinality(
                                 {k \in cs : DateOf(k.timestamp) = dates[i]})]],
                       daily_conversions |->
                          [i \in DOMAIN dates |->
                             [date |-> dates[i],
                              conversions |-> Cardinality(
                                 {c \in vs : DateOf(c.timestamp) = dates[i]})]]]
    /\ UNCHANGED <<products, links, clicks, conversions, nextLink, nextClick,
                   nextConv, now, workers, cache>>


\* ------------------------------------------------------------ specifications
\* The whole system: every operation with every input.
LinkOps ==
    \/ \E w \in Workers, u \in Users, p \in ProductIds, la \in Landing,
          e \in {NoTime} \cup Times : BeginCreateLink(w, u, p, la, e)
    \/ \E w \in Workers : FinishCreateLink(w)
    \/ \E u \in Users, id \in LinkIds, d \in LinkPatches : UpdateLink(u, id, d)
    \/ \E u \in Users, id \in LinkIds : DestroyLink(u, id)
    \/ \E ids \in SUBSET LinkIds : AdminActivateLinks(ids)
    \/ \E ids \in SUBSET LinkIds : AdminDeactivateLinks(ids)

ClickOps ==
    \/ \E w \in Workers, code \in Codes : BeginClick(w, code)
    \/ \E w \in Workers, stored \in BOOLEAN : FinishClick(w, stored)
    \/ Tick

ConversionOps ==
    \/ \E u \in Users, code \in Codes, a \in AmountInputs :
          RecordConversion(u, code, a)
    \/ \E u \in Users, lid \in LinkIds, c \in 0..MaxClicks, a \in AmountInputs :
          CreateConversion(u, lid, c, a)
    \/ \E u \in Users, id \in 1..MaxConvs, d \in ConversionPatches :
          UpdateConversion(u, id, d)
    \/ \E u \in Users, id \in 1..MaxConvs : DestroyConversion(u, id)
    \/ \E ids \in SUBSET (1..MaxConvs) : AdminVerifyConversions(ids)
    \/ \E ids \in SUBSET (1..MaxConvs) : AdminUnverifyConversions(ids)

ProductOps ==
    \E u \in Users, p \in ProductIds, d \in ProductPatches : UpdateProduct(u, p, d)

Next == LinkOps \/ ClickOps \/ ConversionOps \/ ProductOps

Spec == Init /\ [][Next]_vars

\* The link registry alone: creation in two halves by concurrent workers,
\* updates of the pair (affiliate, product) and deletion.
PairPatches == {d \in LinkPatches : d.field \in {"affiliate", "product"} /\
                                    d.value \in Affiliates \cup ProductIds}

NextLinks ==
    \/ \E w \in Workers, u \in {"a1", "a2", "m1"}, p \in ProductIds :
          BeginCreateLink(w, u, p, "", NoTime)
    \/ \E w \in Workers : FinishCreateLink(w)
    \/ \E u \in {"a1", "a2", "adm"}, id \in LinkIds, d \in PairPatches :
          UpdateLink(u, id, d)
    \/ \E u \in {"a1", "a2", "adm"}, id \in LinkIds : DestroyLink(u, id)

SpecLinks == Init /\ [][NextLinks]_vars


\* The conversion ledger: both creation paths, conversion updates and
\* deletes, and the edits of products and links a conversion could depend on.
\* It starts from a registry two affiliates have filled and one visitor has
\* clicked through: link 1 (a1 -> p1), link 2 (a2 -> p2), one click on link 1.
SeedLink(id, u, p) ==
    [id |-> id, code |-> GenCode(id), affiliate |-> u, product |-> p,
     landing_url |-> "", expires_at |-> NoTime, is_active |-> TRUE]

InitConv ==
    /\ products = [p \in ProductIds |->
                     [merchant |-> OwnerOf(p), price |-> 5000,
                      commission_rate |-> IF p = "p1" THEN 10 ELSE 25,
                      is_active |-> TRUE, external_url |-> ""]]
    /\ links = {SeedLink(1, "a1", "p1"), SeedLink(2, "a2", "p2")}
    /\ clicks = {[id |-> 1, affiliate_link |-> 1, timestamp |-> 0]}
    /\ conversions = {}
    /\ nextLink = 3
    /\ nextClick = 2
    /\ nextConv = 1
    /\ now = 0
    /\ workers = [w \in Workers |-> Idle]
    /\ resp = NoResp
    /\ cache = CacheOff

\* the inputs this specification draws: the four kinds of caller (the link's
\* affiliate, the product's merchant, another merchant, an administrator),
\* an absent, a zero and a positive amount, a second rate and a second price
\* for product p1, and a new target or active flag for link 1
ConvCallers == {"a1", "m1", "m2", "adm"}
ConvAmounts == {a \in AmountInputs : a.kind # "text" /\ a.cents \in {0, 5000}}
ConvEdits   == {d \in ConversionPatches :
                  /\ d.field # "click"
                  /\ d.field = "amount" => d.value = 2000}
RatePricePatches == {d \in ProductPatches :
                       \/ d.field = "commission_rate" /\ d.value \in {10, 25, 150}
                       \/ d.field = "price" /\ d.value = 8000}
TargetPatches == {d \in LinkPatches : d.field \in {"product", "is_active"}}

NextConv ==
    \/ \E u \in ConvCallers, code \in Codes, a \in ConvAmounts :
          RecordConversion(u, code, a)
    \/ \E u \in ConvCallers, lid \in LinkIds, a \in ConvAmounts :
          CreateConversion(u, lid, NoClick, a)
    \/ \E u \in {"a1", "m1", "adm"}, id \in 1..MaxConvs, d \in ConvEdits :
          UpdateConversion(u, id, d)
    \/ \E u \in {"a1", "m1"}, id \in 1..MaxConvs : DestroyConversion(u, id)
    \/ \E ids \in SUBSET (1..MaxConvs) : AdminVerifyConversions(ids)
    \/ \E ids \in SUBSET (1..MaxConvs) : AdminUnverifyConversions(ids)
    \/ \E u \in {"m1", "a1"}, d \in RatePricePatches : UpdateProduct(u, "p1", d)
    \/ \E u \in {"a1", "m1"}, d \in TargetPatches : UpdateLink(u, 1, d)
    \/ DestroyLink("a1", 1)

SpecConv == InitConv /\ [][NextConv]_vars

\* The click flow: visitors' requests in two halves on concurrent workers,
\* the clock, and the owner's and the administrator's edits of the link under
\* them.  It starts from a registry holding link 1 (a1 -> p1), not yet clicked.
InitClicks ==
    /\ products = [p \in ProductIds |->
                     [merchant |-> OwnerOf(p), price |-> 5000,
                      commission_rate |-> 10, is_active |-> TRUE,
                      external_url |-> "http://ext"]]
    /\ \E la \in Landing :
          links = {[SeedLink(1, "a1", "p1") EXCEPT !.landing_url = la]}
    /\ clicks = {}
    /\ conversions = {}
    /\ nextLink = 2
    /\ nextClick = 1
    /\ nextConv = 1
    /\ now = 0
    /\ workers = [w \in Workers |-> Idle]
    /\ resp = NoResp
    /\ cache = CacheOff

ExpiryPatches == {d \in LinkPatches :
                    \/ d.field = "is_active"
                    \/ d.field = "expires_at" /\ d.value \in {NoTime, 1}}

NextClicks ==
    \/ \E w \in Workers, code \in Codes : BeginClick(w, code)
    \/ \E w \in Workers, stored \in BOOLEAN : FinishClick(w, stored)
    \/ Tick
    \/ \E d \in ExpiryPatches : UpdateLink("a1", 1, d)
    \/ AdminDeactivateLinks({1})
    \/ AdminActivateLinks({1})
    \/ DestroyLink("a1", 1)
    \/ \E u \in {"m1", "a1"}, code \in Codes :
          RecordConversion(u, code, [kind |-> "number", cents |-> 5000])

SpecClicks == InitClicks /\ [][NextClicks]_vars

\* Link creation: requests whose bodies carry an owner, a code and an active
\* flag of their own, sent by an affiliate, a merchant and an administrator
\* and completed in two halves, with the merchant's edits of the product's
\* active flag and the owner's edits of the created links.
CreateCallers == {"a1", "a2", "m1", "adm"}
CreateBodies  == {b \in LinkBodies : /\ b.landing_url = ""
                                     /\ b.expires_at = NoTime
                                     /\ b.affiliate \in {"a2", "m1"}
                                     /\ b.code = GenCode(0)
                                     /\ ~b.is_active}
ActivePatches == {d \in ProductPatches : d.field = "is_active"}
OwnPatches    == {d \in LinkPatches :
                    d.field \notin {"affiliate", "product", "is_active",
                                    "expires_at"}}

NextCreate ==
    \/ \E w \in Workers, u \in CreateCallers, b \in CreateBodies :
          PostLink(w, u, b)
    \/ \E w \in Workers : FinishCreateLink(w)
    \/ \E d \in ActivePatches : UpdateProduct("m1", "p1", d)
    \/ \E id \in LinkIds, d \in OwnPatches : UpdateLink("a1", id, d)

SpecCreate == Init /\ [][NextCreate]_vars

\* Link management: updates, deactivations and deletions of two existing
\* links by their owners, by the other affiliate, by a merchant and by an
\* administrator.  It starts from the registry of InitConv; the merchant of
\* p1 records conversions on link 1.
EditCallers == {"a1", "a2", "m1", "adm"}
EditPatches == {d \in LinkPatches :
                  \/ d.field \in {"product", "is_active", "landing_url"}
                  \/ d.field = "affiliate" /\ d.value \in {"a1", "a2"}}

NextEdit ==
    \/ \E u \in EditCallers, id \in LinkIds, d \in EditPatches :
          UpdateLink(u, id, d)
    \/ \E u \in EditCallers, id \in LinkIds : DestroyLink(u, id)
    \/ AdminDeactivateLinks({1})
    \/ RecordConversion("m1", GenCode(1), [kind |-> "number", cents |-> 5000])

SpecEdit == InitConv /\ [][NextEdit]_vars

\* Conversion requests with every kind of amount: absent, text that is no
\* number, negative, zero and positive, on both creation paths, by the
\* product's merchant and by others, on links their owners switch on and off.
\* It starts from the registry of InitConv.
FlagPatches == {d \in LinkPatches : d.field = "is_active"}

NextAmounts ==
    \/ \E u \in ConvCallers, code \in Codes, a \in AmountInputs :
          RecordConversion(u, code, a)
    \/ \E u \in ConvCallers, lid \in LinkIds, a \in AmountInputs :
          CreateConversion(u, lid, NoClick, a)
    \/ \E u \in {"a1", "a2"}, id \in LinkIds, d \in FlagPatches :
          UpdateLink(u, id, d)

SpecAmounts == InitConv /\ [][NextAmounts]_vars

\* Attribution of conversions to clicks: visitors click on both links, the
\* merchants record conversions with and without a click reference on both
\* creation paths, and conversions are re-attributed by update.  It starts
\* from the registry of InitConv.
AttrBodies  == {b \in ConvertBodies : b.amount = [kind |-> "number", cents |-> 5000]}
AttrPatches == {d \in ConversionPatches : d.field \in {"affiliate_link", "click"}}

NextAttr ==
    \/ \E w \in Workers, code \in Codes : BeginClick(w, code)
    \/ \E w \in Workers : FinishClick(w, TRUE)
    \/ \E u \in Merchants, code \in Codes, b \in AttrBodies :
          PostConvert(u, code, b)
    \/ \E u \in Merchants, lid \in LinkIds, c \in 0..MaxClicks :
          CreateConversion(u, lid, c, [kind |-> "number", cents |-> 5000])
    \/ \E u \in Merchants, id \in 1..MaxConvs, d \in AttrPatches :
          UpdateConversion(u, id, d)

SpecAttr == InitConv /\ [][NextAttr]_vars

\* Redirect targets: clicks on link 1 (a1 -> p1), whose landing URL its owner
\* sets and clears and whose product's external URL the merchant sets and
\* clears.
InitRedirect ==
    /\ products \in [ProductIds -> [merchant : Merchants, price : {5000},
                                    commission_rate : {10}, is_active : {TRUE},
                                    external_url : Urls]]
    /\ \A p \in ProductIds : products[p].merchant = OwnerOf(p)
    /\ products["p2"].external_url = ""
    /\ \E la \in Landing :
          links = {[SeedLink(1, "a1", "p1") EXCEPT !.landing_url = la]}
    /\ clicks = {}
    /\ conversions = {}
    /\ nextLink = 2
    /\ nextClick = 1
    /\ nextConv = 1
    /\ now = 0
    /\ workers = [w \in Workers |-> Idle]
    /\ resp = NoResp
    /\ cache = CacheOff

LandingPatches  == {d \in LinkPatches : d.field = "landing_url"}
ExternalPatches == {d \in ProductPatches : d.field = "external_url"}

NextRedirect ==
    \/ \E w \in Workers, code \in Codes : BeginClick(w, code)
    \/ \E w \in Workers : FinishClick(w, TRUE)
    \/ \E d \in LandingPatches : UpdateLink("a1", 1, d)
    \/ \E d \in ExternalPatches : UpdateProduct("m1", "p1", d)

SpecRedirect == InitRedirect /\ [][NextRedirect]_vars

\* Device classification: a click request has arrived on a worker with a
\* User-Agent header, or without one, and the worker classifies it.
InitDevice ==
    /\ products = [p \in ProductIds |->
                     [merchant |-> OwnerOf(p), price |-> 5000,
                      commission_rate |-> 10, is_active |-> TRUE,
                      external_url |-> ""]]
    /\ links = {}
    /\ clicks = {}
    /\ conversions = {}
    /\ nextLink = 1
    /\ nextClick = 1
    /\ nextConv = 1
    /\ now = 0
    /\ \E w \in Workers, h \in Headers :
          workers = [v \in Workers |->
                       IF v = w THEN [stage |-> "click_received", header |-> h]
                       ELSE Idle]
    /\ resp = NoResp
    /\ cache = CacheOff

NextDevice == \E w \in Workers : ClassifyDevice(w)

SpecDevice == InitDevice /\ [][NextDevice]_vars

\* Reads: the seeded links receive clicks and conversions, and every kind of
\* user lists links, clicks and conversions.
NextReads ==
    \/ \E w \in Workers, code \in Codes : BeginClick(w, code)
    \/ \E w \in Workers : FinishClick(w, TRUE)
    \/ \E u \in Merchants, lid \in LinkIds :
          CreateConversion(u, lid, NoClick, [kind |-> "number", cents |-> 5000])
    \/ \E u \in Users : ListLinks(u)
    \/ \E u \in Users : ListClicks(u)
    \/ \E u \in Users : ListConversions(u)

SpecReads == InitConv /\ [][NextReads]_vars

\* Analytics: days pass while the seeded links receive clicks and
\* conversions, and the links' owners, another affiliate and an
\* administrator read the analytics of a link over one or two days.
AnalyticsCallers == {"a1", "a2", "adm"}
DaysInputs == {1, 2}

NextAnalytics ==
    \/ Tick
    \/ \E w \in Workers, code \in Codes : BeginClick(w, code)
    \/ \E w \in Workers : FinishClick(w, TRUE)
    \/ \E u \in Merchants, code \in Codes :
          RecordConversion(u, code, [kind |-> "number", cents |-> 5000])
    \/ \E u \in AnalyticsCallers, id \in LinkIds, days \in DaysInputs :
          Analytics(u, id, days)

SpecAnalytics == InitConv /\ [][NextAnalytics]_vars

\* Product cache: a deployment with a cache backend, in which merchant m1, an
\* affiliate and an administrator list the products, and m1 and the
\* administrator reprice and delete them, while entries time out.
InitCache ==
    /\ products = [p \in ProductIds |->
                     [merchant |-> OwnerOf(p), price |-> 5000,
                      commission_rate |-> 10, is_active |-> TRUE,
                      external_url |-> ""]]
    /\ links = {}
    /\ clicks = {}
    /\ conversions = {}
    /\ nextLink = 1
    /\ nextClick = 1
    /\ nextConv = 1
    /\ now = 0
    /\ workers = [w \in Workers |-> Idle]
    /\ resp = NoResp
    /\ \E b \in {"locmem", "redis"} :
          cache = [backend |-> b, entries |-> [u \in Users |-> NoEntry]]

CacheCallers == {"m1", "a1"}
CachePatches == {[field |-> "price", value |-> v] : v \in {2000, 5000}}

NextCache ==
    \/ \E u \in CacheCallers : ListProducts(u)
    \/ \E u \in CacheCallers, p \in ProductIds, d \in CachePatches :
          UpdateProduct(u, p, d)
    \/ \E u \in CacheCallers, p \in ProductIds : DestroyProduct(u, p)
    \/ \E u \in CacheCallers : ExpireEntry(u)

SpecCache == InitCache /\ [][NextCache]_vars

\* Ranges: product p1 pays half of the amount as commission; merchants
\* change prices and rates, also to values out of range, record conversions
\* and correct the amount of a recorded conversion to a smaller positive one.
InitRanges ==
    /\ products = [p \in ProductIds |->
                     [merchant |-> OwnerOf(p), price |-> 5000,
                      commission_rate |-> IF p = "p1" THEN 50 ELSE 25,
                      is_active |-> TRUE, external_url |-> ""]]
    /\ links = {SeedLink(1, "a1", "p1"), SeedLink(2, "a2", "p2")}
    /\ clicks = {}
    /\ conversions = {}
    /\ nextLink = 3
    /\ nextClick = 1
    /\ nextConv = 1
    /\ now = 0
    /\ workers = [w \in Workers |-> Idle]
    /\ resp = NoResp
    /\ cache = CacheOff

RangePatches == {d \in ProductPatches : d.field \in {"price", "commission_rate"}}
AmountPatches == {d \in ConversionPatches : d.field = "amount" /\ d.value = 2000}

NextRanges ==
    \/ \E u \in Merchants, p \in ProductIds, d \in RangePatches :
          UpdateProduct(u, p, d)
    \/ \E u \in Merchants, code \in Codes, a \in AmountInputs :
          RecordConversion(u, code, a)
    \/ \E u \in Merchants, lid \in LinkIds, a \in AmountInputs :
          CreateConversion(u, lid, NoClick, a)
    \/ \E u \in Merchants, id \in 1..MaxConvs, d \in AmountPatches :
          UpdateConversion(u, id, d)

SpecRanges == InitRanges /\ [][NextRanges]_vars

\* ------------------------------------------------------------------ claims
SamePair(l, u, p) == l.affiliate = u /\ l.product = p

\* C1: every completed CreateLink attempt of an affiliate for a pair
\* (affiliate, product) that already has a link receives ConflictError (the
\* 400 "already have an affiliate link") and creates no link, and an attempt
\* for a pair without a link succeeds, also when the check and the insert of
\* different requests interleave.
C1_ExactlyOneCreateSucceeds ==
    [][(resp'.op = "create_link" /\ is_affiliate(resp'.user)) =>
         IF \E l \in links : SamePair(l, resp'.user, resp'.product)
           THEN resp'.status = 400 /\ resp'.detail = "duplicate" /\ links' = links
           ELSE resp'.status = 201 /\ Cardinality(links') = Cardinality(links) + 1
      ]_vars

\* C2: no two AffiliateLinks have the same (affiliate, product) pair.
C2_UniquePair ==
    \A l1 \in links, l2 \in links :
        (l1.affiliate = l2.affiliate /\ l1.product = l2.product) => l1.id = l2.id

\* C2 witness: two links exist and an update that would have made their pairs
\* equal has just been refused.
C2_Witness ==
    /\ Cardinality(links) = 2
    /\ resp.op = "update_link"
    /\ resp.status \in {400, 500}


IsNewConversion(n) == ~\E c \in conversions : c.id = n.id

C5_OnlyMerchantOrAdminCreates ==
    [][/\ \A n \in conversions' : IsNewConversion(n) =>
             MayRecordConversion(resp'.user, LinkById(n.affiliate_link))
       /\ \A l \in links :
            (/\ l.is_active
             /\ ~MayRecordConversion(resp'.user, l)
             /\ \/ resp'.op = "convert" /\ resp'.code = l.code
                \/ resp'.op = "create_conversion" /\ resp'.link = l.id
             /\ resp'.status # 400)
            => resp'.status = 403 /\ conversions' = conversions]_vars


\* a click request answered while the link was being resolved (not the second
\* half of a request resolved in an earlier step)
ClickAnsweredAtResolve == resp'.op = "click" /\ workers' = workers

\* a click request that resolved link l in this step and goes on to record
ClickAdmitted(l) ==
    \E w \in Workers : /\ workers[w] = Idle
                       /\ workers'[w].stage = "click_resolved"
                       /\ workers'[w].link.id = l.id

\* a click request on link l, resolved in an earlier step, ends in this step
ClickCompletes(w, l) ==
    /\ workers[w].stage = "click_resolved"
    /\ workers[w].link.id = l.id
    /\ workers'[w] = Idle

NoLinkHasCode(code) == ~\E l \in links : l.code = code

\* what a click on a code that was never issued is answered
UnknownCodeStatus == HandlerStatus(Resolve(GenCode(0)).raised)

\* C6: for a code that matches no AffiliateLink, GET /click/{code} and
\* POST /convert/{code} answer 404, never 500, and record no Click and no
\* Conversion.
C6_UnknownCodeNotFound ==
    [][(resp'.op \in {"click", "convert"} /\ NoLinkHasCode(resp'.code)) =>
          /\ resp'.status = 404
          /\ clicks' = clicks
          /\ conversions' = conversions]_vars

\* C7 as claimed: a click on the code of an existing, inactive link is answered
\* 410 (ExpiredError), not what a code that never existed gets, and records no
\* Click.
C7_InactiveIsExpired ==
    [][\A l \in links :
          (~l.is_active /\ ClickAnsweredAtResolve /\ resp'.code = l.code) =>
             /\ resp'.status = 410
             /\ resp'.status # UnknownCodeStatus
             /\ clicks' = clicks]_vars

\* C7 as amended: a click on the code of an existing, inactive link is answered
\* exactly as a click on a code that never existed is, never 410 and never a
\* redirect; the request goes no further and records no Click.
C7_InactiveIsUnknown ==
    [][\A l \in links : ~l.is_active =>
          /\ ~ClickAdmitted(l)
          /\ (ClickAnsweredAtResolve /\ resp'.code = l.code) =>
                /\ resp'.status = UnknownCodeStatus
                /\ resp'.status \notin {410, 302}
                /\ clicks' = clicks]_vars

\* C7 witness: the last step answered a click on the code of an inactive link.
C7_Witness ==
    /\ resp.op = "click"
    /\ resp.status = UnknownCodeStatus
    /\ \E l \in links : l.code = resp.code /\ ~l.is_active

\* C8: a click on an active link whose expires_at is in the past is answered
\* 410 with no redirect target, appends no Click and is not taken further;
\* the link is left as it was and its owner's link queryset still holds it.
C8_ExpiredClick ==
    [][\A l \in links :
          (l.is_active /\ l.expires_at # NoTime /\ now > l.expires_at) =>
             /\ ~ClickAdmitted(l)
             /\ (ClickAnsweredAtResolve /\ resp'.code = l.code) =>
                   /\ resp'.status = 410
                   /\ resp'.target = ""
                   /\ clicks' = clicks
                   /\ links' = links
                   /\ l \in LinkQueryset(l.affiliate)']_vars

\* C8 witness: the last step answered 410 to a click on an active, expired
\* link that its owner can still retrieve.
C8_Witness ==
    /\ resp.op = "click"
    /\ resp.status = 410
    /\ \E l \in links : /\ l.code = resp.code
                        /\ l.is_active
                        /\ l.expires_at # NoTime /\ now > l.expires_at
                        /\ l \in LinkQueryset(l.affiliate)

\* C9: a click request that resolved a link which is still there, unchanged
\* and active, ends with the redirect to the target the precedence rule gives,
\* whether or not the Click could be stored.
C9_RedirectDespiteStorageError ==
    [][\A w \in Workers : \A l \in links :
          (ClickCompletes(w, l) /\ workers[w].link = l /\ l.is_active) =>
             /\ resp'.op = "click"
             /\ resp'.status = 302
             /\ resp'.target = RedirectUrl(l)]_vars

RecordedFor(l, rows) == {c \in rows : c.affiliate_link = l.id}

\* C10 as claimed: while a link is inactive no Click is appended for it and no
\* click request on its code is redirected, requests resolved before the
\* deactivation included.
C10_NoClickAfterDeactivation ==
    [][\A l \in links : ~l.is_active =>
          /\ RecordedFor(l, clicks') = RecordedFor(l, clicks)
          /\ ~(resp'.op = "click" /\ resp'.code = l.code /\ resp'.status = 302)
      ]_vars

\* C10 as amended: while a link is inactive no click request resolves its
\* code: such a request is answered without a redirect and appends no Click.
\* Only a request that had resolved the link before the deactivation may still
\* append its one Click and redirect.  A step that deactivates a link leaves
\* every recorded Click and Conversion as it was.
C10_NoResolutionAfterDeactivation ==
    [][/\ \A l \in links : ~l.is_active =>
             /\ ~ClickAdmitted(l)
             /\ (ClickAnsweredAtResolve /\ resp'.code = l.code) =>
                   resp'.status # 302 /\ clicks' = clicks
             /\ RecordedFor(l, clicks') \ RecordedFor(l, clicks) # {} =>
                   /\ \E w \in Workers : ClickCompletes(w, l)
                   /\ Cardinality(clicks') = Cardinality(clicks) + 1
                   /\ clicks \subseteq clicks'
       /\ (\E l \in links : \E n \in links' :
              n.id = l.id /\ l.is_active /\ ~n.is_active) =>
             clicks' = clicks /\ conversions' = conversions]_vars

\* C10 witness: a link with a recorded click and a recorded conversion is
\* inactive, and the last step redirected a click on its code.
C10_Witness ==
    \E l \in links :
        /\ ~l.is_active
        /\ RecordedFor(l, clicks) # {}
        /\ RecordedFor(l, conversions) # {}
        /\ resp.op = "click" /\ resp.code = l.code /\ resp.status = 302


\* a row of links' whose primary key no row of links has
IsNewLink(n) == ~\E l \in links : l.id = n.id

\* C11: a successful POST /links/ adds exactly one link, which is active, is
\* owned by the requesting user whatever owner the body names, and carries a
\* generated code no other link has; the code a client sends on create or on
\* update is never stored, and the code of a link never changes.
C11_CreatedLink ==
    [][/\ (resp'.op = "create_link" /\ resp'.status = 201) =>
             \E n \in links' :
                /\ IsNewLink(n)
                /\ links' = links \cup {n}
                /\ n.is_active
                /\ n.affiliate = resp'.user
                /\ \A o \in links : o.code # n.code
       /\ \A n \in links' : n.code # GenCode(0)
       /\ \A l \in links : \A n \in links' : n.id = l.id => n.code = l.code
      ]_vars

\* C11 witness: the affiliate's second link has just been created and the
\* first one is still there.
C11_Witness ==
    /\ resp.op = "create_link"
    /\ resp.status = 201
    /\ Cardinality(links) = 2
    /\ \A l \in links : l.affiliate = resp.user /\ l.is_active

\* C12: a POST /links/ for a product whose is_active is false is answered 400
\* (ValidationError) at validation, goes no further and leaves the links as
\* they were.
C12_InactiveProductRefused ==
    [][\A p \in ProductIds : ~products[p].is_active =>
          /\ ~\E w \in Workers : /\ workers[w] = Idle
                                  /\ workers'[w].stage = "create_validated"
                                  /\ workers'[w].product = p
          /\ (resp'.op = "create_link" /\ resp'.product = p /\ workers' = workers)
                => resp'.status = 400 /\ links' = links]_vars

\* C12 witness: the last step refused a create request for an inactive
\* product.
C12_Witness ==
    /\ resp.op = "create_link"
    /\ resp.status = 400
    /\ resp.detail = "inactive_product"
    /\ ~products[resp.product].is_active

\* C13: every link that appears was created by a POST /links/ of a user with
\* the affiliate role, who owns it; a create request of a merchant or of any
\* other user without that role is refused (403 once it has passed
\* validation) and adds no link.
C13_OnlyAffiliatesCreate ==
    [][/\ \A n \in links' : IsNewLink(n) =>
             /\ resp'.op = "create_link"
             /\ resp'.user = n.affiliate
             /\ role(n.affiliate) = "affiliate"
       /\ (resp'.op = "create_link" /\ role(resp'.user) # "affiliate") =>
             resp'.status \in {400, 403} /\ links' = links
       /\ \A w \in Workers :
             (/\ workers[w].stage = "create_validated"
              /\ role(workers[w].user) # "affiliate"
              /\ workers'[w] = Idle)
             => resp'.status = 403 /\ links' = links]_vars

\* C13 witness: a merchant's create request, valid otherwise, has just been
\* refused.
C13_Witness ==
    /\ resp.op = "create_link"
    /\ resp.status = 403
    /\ role(resp.user) = "merchant"
    /\ products[resp.product].is_active

\* C14: the affiliate, the product and the code of an existing link never
\* change, whatever operation follows.
C14_OwnerProductCodeFixed ==
    [][\A l \in links : \A n \in links' :
          n.id = l.id => /\ n.affiliate = l.affiliate
                         /\ n.product = l.product
                         /\ n.code = l.code]_vars

\* an update or delete request on link l by a user who is neither its owner
\* nor an administrator has been answered in this step
ForeignRequest(l) ==
    /\ resp'.op \in {"update_link", "destroy_link"}
    /\ resp'.link = l.id
    /\ resp'.user # l.affiliate
    /\ ~is_superuser(resp'.user)

C16_InactiveLinkNotFound ==
    [][\A l \in links :
          (/\ ~l.is_active
           /\ \/ resp'.op = "convert" /\ resp'.code = l.code
              \/ resp'.op = "create_conversion" /\ resp'.link = l.id)
          => resp'.status = 404 /\ conversions' = conversions]_vars

\* an amount that is missing, not a number, zero or negative
BadAmount(a) == a.kind # "number" \/ a.cents <= 0

\* C17: a conversion request with a bad amount, sent by an authorized caller
\* on an active link, is answered 400 (ValidationError) on either path and
\* persists nothing; every persisted Conversion has amount > 0.
C17_BadAmountRejected ==
    [][/\ \A u \in Users, a \in AmountInputs :
             BadAmount(a) =>
               /\ \A code \in Codes :
                     (/\ LinkLookup(code) # {}
                      /\ RecordConversion(u, code, a)
                      /\ resp'.status # 403)
                     => resp'.status = 400 /\ conversions' = conversions
               /\ \A lid \in LinkIds :
                     CreateConversion(u, lid, NoClick, a)
                     => resp'.status = 400 /\ conversions' = conversions
       /\ \A n \in conversions' : n.amount > 0]_vars

\* C18: a Conversion is created with verified = FALSE, and its verified flag
\* changes only in a step of the merchant who owns the link's product or of
\* an administrator.
C18_VerifiedByMerchantOrAdmin ==
    [][/\ \A n \in conversions' : IsNewConversion(n) => ~n.verified
       /\ \A c \in conversions : \A n \in conversions' :
             (n.id = c.id /\ n.verified # c.verified) =>
                MayRecordConversion(resp'.user, LinkById(c.affiliate_link))
      ]_vars

\* C19: an existing Conversion is never deleted, and its link, click, amount
\* and timestamp never change, whatever operation follows.
C19_ConversionAppendOnly ==
    [][\A c \in conversions : \E n \in conversions' :
          /\ n.id = c.id
          /\ n.affiliate_link = c.affiliate_link
          /\ n.click = c.click
          /\ n.amount = c.amount
          /\ n.timestamp = c.timestamp]_vars

\* C20 as claimed: the set of Clicks only grows, whatever operation follows,
\* the deletion of the parent link included.
C20_ClicksOnlyGrow ==
    [][clicks \subseteq clicks']_vars

\* C20 as amended: no operation changes a field of a recorded Click, and a
\* Click is removed only by the successful deletion of its parent link, which
\* removes it together with the link; under every other operation, updates
\* and deactivations of the link included, the set of Clicks only grows.
C20_ClicksKeptWithLink ==
    [][\A c \in clicks :
          /\ c \in clicks' \/ ~\E n \in clicks' : n.id = c.id
          /\ c \notin clicks' =>
                /\ resp'.op = "destroy_link"
                /\ resp'.status = 204
                /\ resp'.link = c.affiliate_link
                /\ ~\E l \in links' : l.id = c.affiliate_link]_vars

\* C20 witness: a link whose clicks had been recorded has just been deleted,
\* and its clicks with it.
C20_Witness ==
    /\ resp.op = "destroy_link"
    /\ resp.status = 204
    /\ nextClick > 1
    /\ ~\E c \in clicks : c.affiliate_link = resp.link


ClickExists(id) == \E k \in clicks : k.id = id

\* C21: a conversion created by a request that names an existing Click
\* references that Click, and one created by a request that names none has no
\* click, on POST /convert/{code}/ as on POST /conversions/.
C21_ClickReferenceKept ==
    [][/\ \A u \in Users, code \in Codes, b \in ConvertBodies :
             (/\ b.click = NoClick \/ ClickExists(b.click)
              /\ PostConvert(u, code, b)
              /\ resp'.status = 201)
             => \A n \in conversions' : IsNewConversion(n) => n.click = b.click
       /\ \A u \in Users, lid \in LinkIds, c \in 0..MaxClicks, a \in AmountInputs :
             (CreateConversion(u, lid, c, a) /\ resp'.status = 201)
             => \A n \in conversions' : IsNewConversion(n) => n.click = c]_vars

\* C29: the Click a Conversion references was recorded on the Conversion's
\* own link.
C29_ClickOfSameLink ==
    \A c \in conversions :
        c.click # NoClick =>
           \E k \in clicks : k.id = c.click /\ k.affiliate_link = c.affiliate_link


\* C22: an anonymous click request on an active, unexpired link is admitted,
\* and when it completes, the link still being there and the storage taking
\* the insert, it is answered with the redirect and appends exactly one new
\* Click that references the link, next to the Clicks already recorded and
\* without touching the request in progress on the other worker.
C22_EachClickRecorded ==
    [][\A w \in Workers :
          /\ \A l \in links :
                (l.is_active /\ ~(l.expires_at # NoTime /\ now > l.expires_at)
                 /\ BeginClick(w, l.code))
                => /\ workers'[w].stage = "click_resolved"
                   /\ workers'[w].link = l
          /\ (/\ workers[w].stage = "click_resolved"
              /\ HasLinkId(workers[w].link.id)
              /\ FinishClick(w, TRUE))
             => /\ resp'.status = 302
                /\ \E n \in clicks' :
                      /\ ~ClickExists(n.id)
                      /\ n.affiliate_link = workers[w].link.id
                      /\ clicks' = clicks \cup {n}
                /\ Cardinality(clicks') = Cardinality(clicks) + 1
                /\ \A v \in Workers \ {w} : workers'[v] = workers[v]]_vars

\* C22 witness: of two requests in progress on the same link at once, one has
\* just recorded its Click and been redirected while the other is still to
\* record its own.
C22_Witness ==
    /\ resp.op = "click"
    /\ resp.status = 302
    /\ \E v \in Workers :
          /\ workers[v].stage = "click_resolved"
          /\ workers[v].link.code = resp.code
          /\ RecordedFor(workers[v].link, clicks) # {}


\* C24: a click request that ends with a redirect is sent to the landing URL
\* of the link it resolved when that is set, otherwise to the external URL of
\* the link's product when that is set, otherwise to the detail page of the
\* link's product.
C24_RedirectPrecedence ==
    [][\A w \in Workers :
          (/\ workers[w].stage = "click_resolved"
           /\ workers'[w] = Idle
           /\ resp'.status = 302)
          => LET l == workers[w].link
                 p == products[l.product] IN
             /\ l.landing_url # "" => resp'.target = l.landing_url
             /\ (l.landing_url = "" /\ p.external_url # "")
                   => resp'.target = p.external_url
             /\ (l.landing_url = "" /\ p.external_url = "")
                   => resp'.target = ProductDetailUrl(l.product)
             /\ resp'.target # ""]_vars

\* C24 witness: a click on a link without a landing URL, to a product without
\* an external URL, has just been redirected to the product's detail page.
C24_Witness ==
    /\ resp.op = "click"
    /\ resp.status = 302
    /\ resp.target = "/api/products/p1/"
    /\ \E l \in links : /\ l.code = resp.code
                        /\ l.landing_url = ""
                        /\ products[l.product].external_url = ""


\* the lowercased text of the header the last step classified
ClassifiedText == Lower(resp.header.text)

HasTablet == \E p \in TabletPatterns : Contains(p, ClassifiedText)
HasMobile == \E p \in MobilePatterns : Contains(p, ClassifiedText)

\* C23: a request without a User-Agent header, or with an empty one, is
\* classified unknown; otherwise one whose user agent holds a tablet pattern
\* (ipad, tablet, kindle) in any letter case is classified tablet, also when
\* it holds a mobile pattern; otherwise one that holds a mobile pattern is
\* classified mobile; every other one is classified desktop.
C23_DeviceClassification ==
    resp.op = "detect_device_type" =>
       LET h == resp.header
           d == resp.device_type IN
       /\ (~h.present \/ h.text = <<>>) => d = "unknown"
       /\ (h.present /\ h.text # <<>>) =>
             /\ HasTablet => d = "tablet"
             /\ (~HasTablet /\ HasMobile) => d = "mobile"
             /\ (~HasTablet /\ ~HasMobile) => d = "desktop"
       /\ Contains(<<"i", "p", "a", "d">>, ClassifiedText) => d = "tablet"
       /\ (Contains(<<"a", "n", "d", "r", "o", "i", "d">>, ClassifiedText)
             /\ ~HasTablet) => d = "mobile"

\* C23 witness: a user agent with "iPad" and "Mobile" in it has been
\* classified tablet.
C23_Witness ==
    /\ resp.op = "detect_device_type"
    /\ resp.device_type = "tablet"
    /\ resp.header.text = <<"i", "P", "a", "d", "M", "o", "b", "i", "l", "e">>


\* the link with this id is one the user may see under the role scoping: an
\* affiliate their own links, a merchant the links to their products
InScope(u, lid) ==
    \E l \in links :
       /\ l.id = lid
       /\ is_affiliate(u) => l.affiliate = u
       /\ is_merchant(u) => products[l.product].merchant = u

\* C25: a list answered to an affiliate holds only their own links and the
\* clicks and conversions on them, and a list answered to a merchant holds
\* only links to their own products and the clicks and conversions on those.
C25_ReadsRoleScoped ==
    /\ resp.op = "list_links" =>
          \A id \in resp.rows : InScope(resp.user, id)
    /\ resp.op = "list_clicks" =>
          \A id \in resp.rows :
             \A k \in clicks : k.id = id => InScope(resp.user, k.affiliate_link)
    /\ resp.op = "list_conversions" =>
          \A id \in resp.rows :
             \A c \in conversions :
                c.id = id => InScope(resp.user, c.affiliate_link)


\* C26: the conversion rate of an analytics answer is its conversion count
\* over its click count, and 0 when its click count is 0.
C26_RateOfReportedCounts ==
    (resp.op = "analytics" /\ resp.status = 200) =>
       LET r == resp.conversion_rate IN
       IF resp.total_clicks = 0 \/ resp.total_conversions = 0
         THEN r.num = 0 \/ r.den = 0
         ELSE /\ r.den # 0
              /\ r.num * resp.total_clicks = resp.total_conversions * r.den

\* the sum of the counts of a daily series
RECURSIVE SumClicks(_)
SumClicks(s) == IF s = <<>> THEN 0 ELSE Head(s).clicks + SumClicks(Tail(s))
RECURSIVE SumConversions(_)
SumConversions(s) ==
    IF s = <<>> THEN 0 ELSE Head(s).conversions + SumConversions(Tail(s))

\* C27: the daily series of an analytics answer name distinct days, and every
\* click and conversion the answer counts is in exactly one bucket, so the
\* buckets add up to the totals; the current day has a bucket.
C27_EveryEventInOneBucket ==
    (resp.op = "analytics" /\ resp.status = 200) =>
       /\ \A i, j \in DOMAIN resp.daily_clicks :
             i # j => resp.daily_clicks[i].date # resp.daily_clicks[j].date
       /\ SumClicks(resp.daily_clicks) = resp.total_clicks
       /\ SumConversions(resp.daily_conversions) = resp.total_conversions
       /\ \E i \in DOMAIN resp.daily_clicks :
             resp.daily_clicks[i].date = DateOf(now)


\* C28: a product list answered after a product write holds the rows as they
\* are after that write, and a delete requested by the product's owner
\* removes the product.
C28_CacheFollowsWrites ==
    [][/\ resp'.op = "list_products" =>
             resp'.rows = {[id |-> p, row |-> products'[p]] :
                             p \in IF is_merchant(resp'.user)
                                     THEN {q \in DOMAIN products' :
                                             products'[q].merchant = resp'.user}
                                     ELSE DOMAIN products'}
       /\ \A u \in Users, p \in DOMAIN products :
             (DestroyProduct(u, p) /\ products[p].merchant = u)
                => p \notin DOMAIN products']_vars


\* C30: every product has a price above 0 and a commission rate from 0 to
\* 100 percent, and every conversion has a commission from 0 to its amount
\* (commissions are kept in cents times percent).
C30_RangesHold ==
    /\ \A p \in DOMAIN products :
          /\ products[p].price > 0
          /\ products[p].commission_rate >= 0
          /\ products[p].commission_rate <= 100
    /\ \A c \in conversions :
          /\ c.commission_amount >= 0
          /\ c.commission_amount <= c.amount * 100

====
